---- MODULE Spec2Model ----
\* A model of spiracle.py: the relay-driven irrigation pump controller.
\*
\* One synchronous thread of control is modelled by a program counter `pc`.
\* Voltages are in tenths of a volt (2.5 V is 25), times in whole seconds.
\* Python values that the code passes positionally are kept with their type
\* (<<"num", n>>, <<"bool", 0|1>>, <<"adc", 0>>), because run_and_cleanup
\* forwards *runner_args unchanged and the binding of arguments to parameters
\* decides what a session is run with.
EXTENDS Integers, Sequences, FiniteSets

VARIABLES
    pc,            \* position of the single thread of control
    cmd,           \* the entry point that was invoked
    wrapped,       \* TRUE iff run_and_cleanup's try block is on the stack
    runner,        \* run_and_cleanup's runner
    runner_args,   \* run_and_cleanup's *runner_args
    adc_local,     \* run_and_cleanup's local `adc` ("unset" | "ADC")
    cs,            \* parameters of check_sensors_and_run_pump
    rp,            \* parameters of run_pump
    relay_pin,     \* run_pump's OutputPin: "none" | "LOW" | "HIGH" (_current_output)
    gpio,          \* the hardware pin RELAY_PIN_NUMBER: [mode, level]
    stop_time,     \* run_pump's stop_time: {} before line 133, {t} after
    now,           \* the wall clock (environment)
    waterV,        \* voltage on WATER_ADC_CHANNEL (environment)
    soilV,         \* voltage on SOIL_ADC_CHANNEL (environment)
    out,           \* the messages echoed so far
    exc,           \* the exception in flight, "none" when there is none
    cleaned,       \* number of calls of cleanup()
    \* ---- observations of the run (history) ----
    reason,        \* the stop message that ended the polling loop, "none" before
    iterWater,     \* water reading of the current loop iteration: {} or {v}
    iterSoil,      \* soil reading of the current loop iteration: {} or {v}
    iterNow,       \* clock reading of the current loop iteration: {} or {t}
    start,         \* clock reading of line 133: {} or {t}
    sites,         \* the source lines whose sensor read has been performed
    nHigh,         \* number of set_high commands
    nLow,          \* number of set_low commands
    sessions,      \* number of calls of run_pump
    rpExit,        \* how run_pump was left: "none" | "active" | "returned" | "raised"
    pin_log,       \* the commands given to the OutputPin, in order
    \* ---- components exercised on their own ----
    input_pin,     \* the InputPin built on the pin: "none" | "InputPin"
    hw_input_read, \* TRUE iff GPIO.input has been called
    observed,      \* what the pin's properties last answered
    probe,         \* the voltage last given to the threshold predicates: {} or {v}
    verdict        \* what the three predicates answered on it

progVars == <<pc, cmd, wrapped, runner, runner_args, adc_local, cs, rp>>
pinVars  == <<relay_pin, gpio, pin_log>>
unitVars == <<input_pin, hw_input_read, observed, probe, verdict>>
envVars  == <<now, waterV, soilV>>
histVars == <<reason, iterWater, iterSoil, iterNow, start, sites, nHigh, nLow,
              sessions, rpExit>>
vars == <<progVars, pinVars, envVars, stop_time, out, exc, cleaned, histVars, unitVars>>

\* ------------------------------------------------------------------ bounds
MaxTimeout == 2
MaxClock == 3
VoltMargin == 1

\* --------------------------------------------------------------- constants
SOIL_ADC_CHANNEL == 1
WATER_ADC_CHANNEL == 2
SOIL_DRY_THRESHOLD == 25
WATER_LEVEL_WARNING_THRESHOLD == 30
WATER_LEVEL_CRITICAL_THRESHOLD == 27

WATER_LEVEL_CRITICAL_MESSAGE ==
    "The water level is critically low! Refill the tank to continue watering."
WATER_LEVEL_WARNING_MESSAGE == "The water level is low."
SOIL_IS_WET_MESSAGE == "The soil is wet."
TIME_IS_UP_MESSAGE == "The time is up."
STOPPING_PUMP_MESSAGE == "Stopping the pump."
SOIL_IS_DRY_MESSAGE == "The soil is dry."
RUNNING_UNTIL_WET_MESSAGE == "Running pump until the soil is wet or for at most {} seconds."
RUNNING_FOR_MESSAGE == "Running pump for {} seconds."

\* The timeout argument: zero, one negative value and the positive ones.
Timeouts == (0 - 1)..MaxTimeout
SoilVoltages == (SOIL_DRY_THRESHOLD - VoltMargin)..(SOIL_DRY_THRESHOLD + VoltMargin)
WaterVoltages ==
    (WATER_LEVEL_CRITICAL_THRESHOLD - VoltMargin)..(WATER_LEVEL_WARNING_THRESHOLD + VoltMargin)

\* ------------------------------------------------------------ Python values
Num(n) == <<"num", n>>
Bool(b) == <<"bool", IF b THEN 1 ELSE 0>>
AdcObject == <<"adc", 0>>
NoValue == <<"none", 0>>

\* bool(v): numbers are true unless zero, any other object is true.
Truthy(v) == IF v[1] \in {"num", "bool"} THEN v[2] # 0 ELSE TRUE

\* The number v stands for in arithmetic (True is 1, False is 0).
NumberOf(v) == v[2]

NoParams == [adc |-> NoValue, timeout |-> NoValue,
             check_water_level |-> NoValue, check_moisture |-> NoValue]
NoCsParams == [adc |-> NoValue, timeout |-> NoValue]

\* BindRunPump with the defaults of the pump command's flags (False).
BindRunPumpDefaultsOff(args) ==
    [adc |-> args[1], timeout |-> args[2],
     check_water_level |-> IF Len(args) >= 3 THEN args[3] ELSE Bool(FALSE),
     check_moisture |-> IF Len(args) >= 4 THEN args[4] ELSE Bool(FALSE)]

\* run_pump(adc, timeout, check_water_level=True, check_moisture=True)
BindRunPump(args) ==
    [adc |-> args[1], timeout |-> args[2],
     check_water_level |-> IF Len(args) >= 3 THEN args[3] ELSE Bool(TRUE),
     check_moisture |-> IF Len(args) >= 4 THEN args[4] ELSE Bool(TRUE)]

RunPumpAccepts(args) == Len(args) \in 2..4

\* check_sensors_and_run_pump(adc, timeout)
BindCheckSensors(args) == [adc |-> args[1], timeout |-> args[2]]

CheckSensorsAccepts(args) == Len(args) = 2

\* --------------------------------------------------------- threshold policy
\* is_water_level_low compared against the wrong threshold constant.
is_water_level_low_wrong_threshold(v) == v < SOIL_DRY_THRESHOLD

\* is_water_level_low with a non-strict comparison.
is_water_level_low_or_equal(v) == v <= WATER_LEVEL_WARNING_THRESHOLD

is_water_level_low(v) == v < WATER_LEVEL_WARNING_THRESHOLD

\* is_water_level_critical with a non-strict comparison.
is_water_level_critical_or_equal(v) == v <= WATER_LEVEL_CRITICAL_THRESHOLD

is_water_level_critical(v) == v < WATER_LEVEL_CRITICAL_THRESHOLD

\* is_soil_dry with a non-strict comparison.
is_soil_dry_or_equal(v) == v >= SOIL_DRY_THRESHOLD

is_soil_dry(v) == v > SOIL_DRY_THRESHOLD

\* ------------------------------------------------------------------ sensors
ChannelVoltage(channel) == IF channel = WATER_ADC_CHANNEL THEN waterV ELSE soilV

\* read_adc(adc, channel): what adc.read_adc_voltage can do. An object that is
\* no ADC has no such method; the ADC returns the channel's voltage or fails.
read_adc(adc, channel) ==
    IF adc # AdcObject
    THEN {[exc |-> "AttributeError", v |-> 0]}
    ELSE {[exc |-> "none", v |-> ChannelVoltage(channel)],
          [exc |-> "SensorUnavailable", v |-> 0]}

\* ---------------------------------------------------------------- OutputPin
OutputPin == "LOW"

set_high == "HIGH"

set_low == "LOW"

\* OutputPin._set_output(value): the value is cached, then written to the pin.
set_output(value) ==
    /\ relay_pin' = value
    /\ gpio' = [gpio EXCEPT !.level = value]

\* Pin.is_high and Pin.is_low on a pin whose _current_state is `state`.
is_high(state) == state.value = "HIGH"

is_low(state) == state.value = "LOW"

\* What has been observed of the pin, and answered on a voltage, before any
\* query or probe.
NoObservation == [is_high |-> FALSE, is_low |-> FALSE, value |-> "none", asked |-> FALSE]
NoVerdict == [dry |-> FALSE, low |-> FALSE, critical |-> FALSE]

\* Where control goes when the outermost runner returns or raises.
AfterRunner == IF wrapped THEN "rac_finally" ELSE "done"

Init ==
    /\ pc = "idle"
    /\ cmd = "none"
    /\ wrapped = FALSE
    /\ runner = "none"
    /\ runner_args = <<>>
    /\ adc_local = "unset"
    /\ cs = NoCsParams
    /\ rp = NoParams
    /\ relay_pin = "none"
    /\ gpio = [mode |-> "unset", level |-> "none"]
    /\ stop_time = {}
    /\ now = 0
    /\ waterV \in WaterVoltages
    /\ soilV \in SoilVoltages
    /\ out = <<>>
    /\ exc = "none"
    /\ cleaned = 0
    /\ reason = "none"
    /\ iterWater = {}
    /\ iterSoil = {}
    /\ iterNow = {}
    /\ start = {}
    /\ sites = {}
    /\ nHigh = 0
    /\ nLow = 0
    /\ sessions = 0
    /\ rpExit = "none"
    /\ pin_log = <<>>
    /\ input_pin = "none"
    /\ hw_input_read = FALSE
    /\ observed = NoObservation
    /\ probe = {}
    /\ verdict = NoVerdict

\* ------------------------------------------------------------- environment
\* The positions from which the clock is still read before the session ends,
\* and those at which a sensor is read. The environment moves at all times; a
\* change is only ever seen by the next read, so it is modelled there.
ClockObserved == {"rp_deadline", "rp_water", "rp_soil", "rp_time"}
SensorObserved == {"cs_critical", "cs_low", "cs_soil", "rp_water", "rp_soil", "rp_advisory"}

\* The wall clock advances while the program runs. The clock range leaves room
\* for the longest timeout after the latest start, so that every deadline can
\* be reached.
Tick ==
    /\ pc \in ClockObserved
    /\ now < (IF stop_time = {} THEN MaxClock - MaxTimeout ELSE MaxClock)
    /\ now' = now + 1
    /\ UNCHANGED <<unitVars, progVars, pinVars, waterV, soilV, stop_time, out, exc, cleaned,
                   histVars>>

\* The voltages on the two analog channels change while the program runs.
SensorDrift ==
    /\ pc \in SensorObserved
    /\ \/ \E w \in WaterVoltages \ {waterV} : waterV' = w /\ soilV' = soilV
       \/ \E s \in SoilVoltages \ {soilV} : soilV' = s /\ waterV' = waterV
    /\ UNCHANGED <<unitVars, progVars, pinVars, now, stop_time, out, exc, cleaned, histVars>>

\* ------------------------------------------------------------- entry points
\* run_and_cleanup(runner, *runner_args) is entered.
EnterRunAndCleanup(c, r, args) ==
    /\ pc = "idle"
    /\ pc' = "rac_adc"
    /\ cmd' = c
    /\ wrapped' = TRUE
    /\ runner' = r
    /\ runner_args' = args
    /\ UNCHANGED <<unitVars, adc_local, cs, rp, pinVars, envVars, stop_time, out, exc, cleaned,
                   histVars>>

\* The command `pump TIMEOUT [--water-level-sensor] [--moisture-sensor]`.
pump ==
    \E timeout \in Timeouts, water_level_sensor \in BOOLEAN, moisture_sensor \in BOOLEAN :
        EnterRunAndCleanup("pump", "run_pump",
            <<Num(timeout), Bool(water_level_sensor), Bool(moisture_sensor)>>)

\* The command `run TIMEOUT`.
run ==
    \E timeout \in Timeouts :
        EnterRunAndCleanup("run", "check_sensors_and_run_pump", <<Num(timeout)>>)

\* run_and_cleanup called with a runner and the runner's own arguments, the
\* ADC among them.
call_run_and_cleanup ==
    \/ \E timeout \in Timeouts, cw \in BOOLEAN, cm \in BOOLEAN :
          EnterRunAndCleanup("run_and_cleanup", "run_pump",
              <<AdcObject, Num(timeout), Bool(cw), Bool(cm)>>)
    \/ \E timeout \in Timeouts :
          EnterRunAndCleanup("run_and_cleanup", "check_sensors_and_run_pump",
              <<AdcObject, Num(timeout)>>)

\* run_pump(adc, timeout, check_water_level, check_moisture) called directly.
call_run_pump ==
    /\ pc = "idle"
    /\ \E timeout \in Timeouts, cw \in BOOLEAN, cm \in BOOLEAN :
          rp' = BindRunPump(<<AdcObject, Num(timeout), Bool(cw), Bool(cm)>>)
    /\ pc' = "rp_banner"
    /\ cmd' = "run_pump"
    /\ sessions' = sessions + 1
    /\ rpExit' = "active"
    /\ UNCHANGED <<unitVars, wrapped, runner, runner_args, adc_local, cs, pinVars, envVars,
                   stop_time, out, exc, cleaned, reason, iterWater, iterSoil, iterNow,
                   start, sites, nHigh, nLow>>

\* check_sensors_and_run_pump(adc, timeout) called directly.
call_check_sensors_and_run_pump ==
    /\ pc = "idle"
    /\ \E timeout \in Timeouts :
          cs' = BindCheckSensors(<<AdcObject, Num(timeout)>>)
    /\ pc' = "cs_critical"
    /\ cmd' = "check_sensors_and_run_pump"
    /\ UNCHANGED <<unitVars, wrapped, runner, runner_args, adc_local, rp, pinVars, envVars,
                   stop_time, out, exc, cleaned, histVars>>

\* ---------------------------------------------------------- run_and_cleanup
\* Line 169: adc = ADC(). If the constructor raises, adc is never bound.
rac_adc ==
    /\ pc = "rac_adc"
    /\ \/ /\ adc_local' = "ADC"
          /\ pc' = "rac_refvoltage"
          /\ exc' = exc
       \/ /\ adc_local' = adc_local
          /\ pc' = "rac_finally"
          /\ exc' = "OSError"
    /\ UNCHANGED <<unitVars, cmd, wrapped, runner, runner_args, cs, rp, pinVars, envVars,
                   stop_time, out, cleaned, histVars>>

\* Line 170: adc.set_adc_refvoltage(ADC_REFERENCE_VOLTAGE). If it raises, the
\* finally block runs with adc bound.
rac_refvoltage ==
    /\ pc = "rac_refvoltage"
    /\ \/ /\ pc' = "rac_call"
          /\ exc' = exc
       \/ /\ pc' = "rac_finally"
          /\ exc' = "OSError"
    /\ UNCHANGED <<unitVars, cmd, wrapped, runner, runner_args, adc_local, cs, rp, pinVars,
                   envVars, stop_time, out, cleaned, histVars>>

\* Line 171: runner(*runner_args, **runner_kwargs). The local adc is not among
\* the arguments; the runner's parameters are bound to runner_args in order.
rac_call ==
    /\ pc = "rac_call"
    /\ \/ /\ runner = "run_pump"
          /\ RunPumpAccepts(runner_args)
          /\ rp' = BindRunPump(runner_args)
          /\ pc' = "rp_banner"
          /\ sessions' = sessions + 1
          /\ rpExit' = "active"
          /\ UNCHANGED <<cs, exc>>
       \/ /\ runner = "check_sensors_and_run_pump"
          /\ CheckSensorsAccepts(runner_args)
          /\ cs' = BindCheckSensors(runner_args)
          /\ pc' = "cs_critical"
          /\ UNCHANGED <<rp, exc, sessions, rpExit>>
       \/ /\ \/ runner = "run_pump" /\ ~RunPumpAccepts(runner_args)
             \/ runner = "check_sensors_and_run_pump" /\ ~CheckSensorsAccepts(runner_args)
          /\ exc' = "TypeError"
          /\ pc' = "rac_finally"
          /\ UNCHANGED <<rp, cs, sessions, rpExit>>
    /\ UNCHANGED <<unitVars, cmd, wrapped, runner, runner_args, adc_local, pinVars, envVars,
                   stop_time, out, cleaned, reason, iterWater, iterSoil, iterNow,
                   start, sites, nHigh, nLow>>

\* cleanup(): GPIO.cleanup() returns every channel that was set up to an input.
cleanup ==
    /\ cleaned' = cleaned + 1
    /\ gpio' = IF gpio.mode = "unset" THEN gpio ELSE [mode |-> "IN", level |-> "none"]

\* rac_finally with cleanup() placed after the try block instead of in a
\* finally clause: an exception in flight passes it by.
rac_cleanup_after_try ==
    /\ pc = "rac_finally"
    /\ IF exc = "none" THEN cleanup ELSE UNCHANGED <<cleaned, gpio>>
    /\ pc' = "done"
    /\ UNCHANGED <<unitVars, cmd, wrapped, runner, runner_args, adc_local, cs, rp, relay_pin, pin_log,
                   envVars, stop_time, out, exc, histVars>>

\* Line 173: the finally clause; an exception in flight is raised again after it.
rac_finally ==
    /\ pc = "rac_finally"
    /\ cleanup
    /\ pc' = "done"
    /\ UNCHANGED <<unitVars, cmd, wrapped, runner, runner_args, adc_local, cs, rp, relay_pin, pin_log,
                   envVars, stop_time, out, exc, histVars>>

\* ----------------------------------------------------------------- run_pump
\* An exception raised inside run_pump: nothing in run_pump or in
\* check_sensors_and_run_pump catches it.
RaiseInRunPump(e) ==
    /\ exc' = e
    /\ pc' = AfterRunner
    /\ rpExit' = "raised"

\* Lines 122-128: the banner.
rp_banner ==
    /\ pc = "rp_banner"
    /\ out' = Append(out, IF Truthy(rp.check_moisture)
                           THEN RUNNING_UNTIL_WET_MESSAGE ELSE RUNNING_FOR_MESSAGE)
    /\ pc' = "rp_pin"
    /\ UNCHANGED <<unitVars, cmd, wrapped, runner, runner_args, adc_local, cs, rp, pinVars,
                   envVars, stop_time, exc, cleaned, histVars>>

\* Line 130: relay_pin = OutputPin(RELAY_PIN_NUMBER). GPIO.setup makes the pin
\* an output; the cached output starts LOW and nothing is written yet.
rp_pin ==
    /\ pc = "rp_pin"
    /\ relay_pin' = OutputPin
    /\ gpio' = [mode |-> "OUT", level |-> "none"]
    /\ pin_log' = pin_log
    /\ pc' = "rp_high"
    /\ UNCHANGED <<unitVars, cmd, wrapped, runner, runner_args, adc_local, cs, rp, envVars,
                   stop_time, out, exc, cleaned, histVars>>

\* Line 131: relay_pin.set_high().
rp_high ==
    /\ pc = "rp_high"
    /\ set_output(set_high)
    /\ pin_log' = Append(pin_log, "set_high")
    /\ nHigh' = nHigh + 1
    /\ pc' = "rp_deadline"
    /\ UNCHANGED <<unitVars, cmd, wrapped, runner, runner_args, adc_local, cs, rp, envVars,
                   stop_time, out, exc, cleaned, reason, iterWater, iterSoil, iterNow,
                   start, sites, nLow, sessions, rpExit>>

\* Line 133: stop_time = time.time() + timeout.
rp_deadline ==
    /\ pc = "rp_deadline"
    /\ start' = {now}
    /\ stop_time' = {now + NumberOf(rp.timeout)}
    /\ pc' = "rp_water"
    /\ UNCHANGED <<unitVars, cmd, wrapped, runner, runner_args, adc_local, cs, rp, pinVars,
                   envVars, out, exc, cleaned, reason, iterWater, iterSoil, iterNow,
                   sites, nHigh, nLow, sessions, rpExit>>

\* rp_water with the critical-water test made after the soil test: a critical
\* reading no longer leaves the loop before the soil is looked at.
rp_water_checked_last ==
    /\ pc = "rp_water"
    /\ IF Truthy(rp.check_water_level)
       THEN \E r \in read_adc(rp.adc, WATER_ADC_CHANNEL) :
              IF r.exc # "none"
              THEN /\ RaiseInRunPump(r.exc)
                   /\ UNCHANGED <<out, reason, iterWater, sites>>
              ELSE /\ iterWater' = {r.v}
                   /\ sites' = sites \cup {135}
                   /\ UNCHANGED <<exc, rpExit>>
                   /\ IF is_water_level_critical(r.v) /\ ~Truthy(rp.check_moisture)
                      THEN /\ out' = Append(out, WATER_LEVEL_CRITICAL_MESSAGE)
                           /\ reason' = WATER_LEVEL_CRITICAL_MESSAGE
                           /\ pc' = "rp_stop"
                      ELSE /\ pc' = "rp_soil"
                           /\ UNCHANGED <<out, reason>>
       ELSE /\ pc' = "rp_soil"
            /\ UNCHANGED <<out, exc, reason, iterWater, sites, rpExit>>
    /\ UNCHANGED <<unitVars, cmd, wrapped, runner, runner_args, adc_local, cs, rp, pinVars,
                   envVars, stop_time, cleaned, iterSoil, iterNow, start, nHigh, nLow,
                   sessions>>

\* Lines 135-137: if check_water_level and is_water_level_critical(adc): break.
rp_water ==
    /\ pc = "rp_water"
    /\ IF Truthy(rp.check_water_level)
       THEN \E r \in read_adc(rp.adc, WATER_ADC_CHANNEL) :
              IF r.exc # "none"
              THEN /\ RaiseInRunPump(r.exc)
                   /\ UNCHANGED <<out, reason, iterWater, sites>>
              ELSE /\ iterWater' = {r.v}
                   /\ sites' = sites \cup {135}
                   /\ UNCHANGED <<exc, rpExit>>
                   /\ IF is_water_level_critical(r.v)
                      THEN /\ out' = Append(out, WATER_LEVEL_CRITICAL_MESSAGE)
                           /\ reason' = WATER_LEVEL_CRITICAL_MESSAGE
                           /\ pc' = "rp_stop"
                      ELSE /\ pc' = "rp_soil"
                           /\ UNCHANGED <<out, reason>>
       ELSE /\ pc' = "rp_soil"
            /\ UNCHANGED <<out, exc, reason, iterWater, sites, rpExit>>
    /\ UNCHANGED <<unitVars, cmd, wrapped, runner, runner_args, adc_local, cs, rp, pinVars,
                   envVars, stop_time, cleaned, iterSoil, iterNow, start, nHigh, nLow,
                   sessions>>

\* rp_soil without the break: wet soil is reported and the loop goes on.
rp_soil_report_without_break ==
    /\ pc = "rp_soil"
    /\ IF Truthy(rp.check_moisture)
       THEN \E r \in read_adc(rp.adc, SOIL_ADC_CHANNEL) :
              IF r.exc # "none"
              THEN /\ RaiseInRunPump(r.exc)
                   /\ UNCHANGED <<out, reason, iterSoil, sites>>
              ELSE /\ iterSoil' = {r.v}
                   /\ sites' = sites \cup {138}
                   /\ UNCHANGED <<exc, rpExit, reason>>
                   /\ pc' = "rp_time"
                   /\ out' = IF ~is_soil_dry(r.v) /\ Len(out) < 8
                             THEN Append(out, SOIL_IS_WET_MESSAGE) ELSE out
       ELSE /\ pc' = "rp_time"
            /\ UNCHANGED <<out, exc, reason, iterSoil, sites, rpExit>>
    /\ UNCHANGED <<unitVars, cmd, wrapped, runner, runner_args, adc_local, cs, rp, pinVars,
                   envVars, stop_time, cleaned, iterWater, iterNow, start, nHigh, nLow,
                   sessions>>

\* Lines 138-140: if check_moisture and not is_soil_dry(adc): break.
rp_soil ==
    /\ pc = "rp_soil"
    /\ IF Truthy(rp.check_moisture)
       THEN \E r \in read_adc(rp.adc, SOIL_ADC_CHANNEL) :
              IF r.exc # "none"
              THEN /\ RaiseInRunPump(r.exc)
                   /\ UNCHANGED <<out, reason, iterSoil, sites>>
              ELSE /\ iterSoil' = {r.v}
                   /\ sites' = sites \cup {138}
                   /\ UNCHANGED <<exc, rpExit>>
                   /\ IF ~is_soil_dry(r.v)
                      THEN /\ out' = Append(out, SOIL_IS_WET_MESSAGE)
                           /\ reason' = SOIL_IS_WET_MESSAGE
                           /\ pc' = "rp_stop"
                      ELSE /\ pc' = "rp_time"
                           /\ UNCHANGED <<out, reason>>
       ELSE /\ pc' = "rp_time"
            /\ UNCHANGED <<out, exc, reason, iterSoil, sites, rpExit>>
    /\ UNCHANGED <<unitVars, cmd, wrapped, runner, runner_args, adc_local, cs, rp, pinVars,
                   envVars, stop_time, cleaned, iterWater, iterNow, start, nHigh, nLow,
                   sessions>>

\* time_is_up firing one second before the deadline.
time_is_up_early(t) == \E d \in stop_time : t >= d - 1

\* The test of line 141 on a clock reading t.
time_is_up(t) == \E d \in stop_time : t >= d

\* rp_time without the test of line 141: the loop never ends on the clock.
rp_time_without_check ==
    /\ pc = "rp_time"
    /\ pc' = "rp_water"
    /\ iterWater' = {}
    /\ iterSoil' = {}
    /\ iterNow' = {}
    /\ UNCHANGED <<out, reason>>
    /\ UNCHANGED <<unitVars, cmd, wrapped, runner, runner_args, adc_local, cs, rp, pinVars,
                   envVars, stop_time, exc, cleaned, start, sites, nHigh, nLow,
                   sessions, rpExit>>

\* rp_time with set_high inside the while loop: every further iteration
\* commands the relay high again.
rp_time_set_high_in_loop ==
    /\ pc = "rp_time"
    /\ IF time_is_up(now)
       THEN /\ out' = Append(out, TIME_IS_UP_MESSAGE)
            /\ reason' = TIME_IS_UP_MESSAGE
            /\ iterNow' = {now}
            /\ pc' = "rp_stop"
            /\ UNCHANGED <<iterWater, iterSoil, pinVars, nHigh>>
       ELSE /\ pc' = "rp_water"
            /\ iterWater' = {}
            /\ iterSoil' = {}
            /\ iterNow' = {}
            /\ nHigh < 3
            /\ set_output(set_high)
            /\ pin_log' = Append(pin_log, "set_high")
            /\ nHigh' = nHigh + 1
            /\ UNCHANGED <<out, reason>>
    /\ UNCHANGED <<unitVars, cmd, wrapped, runner, runner_args, adc_local, cs, rp,
                   envVars, stop_time, exc, cleaned, start, sites, nLow,
                   sessions, rpExit>>

\* rp_time with a strict comparison against the deadline.
rp_time_strict ==
    /\ pc = "rp_time"
    /\ IF \E d \in stop_time : now > d
       THEN /\ out' = Append(out, TIME_IS_UP_MESSAGE)
            /\ reason' = TIME_IS_UP_MESSAGE
            /\ iterNow' = {now}
            /\ pc' = "rp_stop"
            /\ UNCHANGED <<iterWater, iterSoil>>
       ELSE /\ pc' = "rp_water"
            /\ iterWater' = {}
            /\ iterSoil' = {}
            /\ iterNow' = {}
            /\ UNCHANGED <<out, reason>>
    /\ UNCHANGED <<unitVars, cmd, wrapped, runner, runner_args, adc_local, cs, rp, pinVars,
                   envVars, stop_time, exc, cleaned, start, sites, nHigh, nLow,
                   sessions, rpExit>>

\* Lines 141-143: if time.time() >= stop_time: break; otherwise the next
\* iteration of the while loop begins.
rp_time ==
    /\ pc = "rp_time"
    /\ IF time_is_up(now)
       THEN /\ out' = Append(out, TIME_IS_UP_MESSAGE)
            /\ reason' = TIME_IS_UP_MESSAGE
            /\ iterNow' = {now}
            /\ pc' = "rp_stop"
            /\ UNCHANGED <<iterWater, iterSoil>>
       ELSE /\ pc' = "rp_water"
            /\ iterWater' = {}
            /\ iterSoil' = {}
            /\ iterNow' = {}
            /\ UNCHANGED <<out, reason>>
    /\ UNCHANGED <<unitVars, cmd, wrapped, runner, runner_args, adc_local, cs, rp, pinVars,
                   envVars, stop_time, exc, cleaned, start, sites, nHigh, nLow,
                   sessions, rpExit>>

\* rp_stop with set_low reached only on the time-up path.
rp_stop_low_only_on_timeout ==
    /\ pc = "rp_stop"
    /\ out' = Append(out, STOPPING_PUMP_MESSAGE)
    /\ IF reason = TIME_IS_UP_MESSAGE
       THEN /\ set_output(set_low)
            /\ pin_log' = Append(pin_log, "set_low")
            /\ nLow' = nLow + 1
       ELSE UNCHANGED <<relay_pin, gpio, pin_log, nLow>>
    /\ pc' = "rp_advisory"
    /\ UNCHANGED <<unitVars, cmd, wrapped, runner, runner_args, adc_local, cs, rp, envVars,
                   stop_time, exc, cleaned, reason, iterWater, iterSoil, iterNow,
                   start, sites, nHigh, sessions, rpExit>>

\* Lines 145-146: _echo(STOPPING_PUMP_MESSAGE); relay_pin.set_low().
rp_stop ==
    /\ pc = "rp_stop"
    /\ out' = Append(out, STOPPING_PUMP_MESSAGE)
    /\ set_output(set_low)
    /\ pin_log' = Append(pin_log, "set_low")
    /\ nLow' = nLow + 1
    /\ pc' = "rp_advisory"
    /\ UNCHANGED <<unitVars, cmd, wrapped, runner, runner_args, adc_local, cs, rp, envVars,
                   stop_time, exc, cleaned, reason, iterWater, iterSoil, iterNow,
                   start, sites, nHigh, sessions, rpExit>>

\* rp_advisory reading the water channel whether or not the check is enabled.
rp_advisory_always_reads ==
    /\ pc = "rp_advisory"
    /\ \E r \in read_adc(rp.adc, WATER_ADC_CHANNEL) :
          IF r.exc # "none"
          THEN /\ RaiseInRunPump(r.exc)
               /\ UNCHANGED <<out, sites>>
          ELSE /\ sites' = sites \cup {148}
               /\ out' = IF is_water_level_low(r.v)
                         THEN Append(out, WATER_LEVEL_WARNING_MESSAGE) ELSE out
               /\ pc' = AfterRunner
               /\ rpExit' = "returned"
               /\ exc' = exc
    /\ UNCHANGED <<unitVars, cmd, wrapped, runner, runner_args, adc_local, cs, rp, pinVars,
                   envVars, stop_time, cleaned, reason, iterWater, iterSoil, iterNow,
                   start, nHigh, nLow, sessions>>

\* rp_advisory deciding on the water reading of the loop's last iteration
\* instead of a reading taken after the stop.
rp_advisory_stale_reading ==
    /\ pc = "rp_advisory"
    /\ IF Truthy(rp.check_water_level)
       THEN \E r \in read_adc(rp.adc, WATER_ADC_CHANNEL) :
              IF r.exc # "none"
              THEN /\ RaiseInRunPump(r.exc)
                   /\ UNCHANGED <<out, sites>>
              ELSE /\ sites' = sites \cup {148}
                   /\ out' = IF \E v \in iterWater : is_water_level_low(v)
                             THEN Append(out, WATER_LEVEL_WARNING_MESSAGE) ELSE out
                   /\ pc' = AfterRunner
                   /\ rpExit' = "returned"
                   /\ exc' = exc
       ELSE /\ pc' = AfterRunner
            /\ rpExit' = "returned"
            /\ UNCHANGED <<out, exc, sites>>
    /\ UNCHANGED <<unitVars, cmd, wrapped, runner, runner_args, adc_local, cs, rp, pinVars,
                   envVars, stop_time, cleaned, reason, iterWater, iterSoil, iterNow,
                   start, nHigh, nLow, sessions>>

\* Lines 148-149: if check_water_level and is_water_level_low(adc): advisory.
\* run_pump then returns, and so does check_sensors_and_run_pump when it was
\* the caller (line 162 is its last statement).
rp_advisory ==
    /\ pc = "rp_advisory"
    /\ IF Truthy(rp.check_water_level)
       THEN \E r \in read_adc(rp.adc, WATER_ADC_CHANNEL) :
              IF r.exc # "none"
              THEN /\ RaiseInRunPump(r.exc)
                   /\ UNCHANGED <<out, sites>>
              ELSE /\ sites' = sites \cup {148}
                   /\ out' = IF is_water_level_low(r.v)
                             THEN Append(out, WATER_LEVEL_WARNING_MESSAGE) ELSE out
                   /\ pc' = AfterRunner
                   /\ rpExit' = "returned"
                   /\ exc' = exc
       ELSE /\ pc' = AfterRunner
            /\ rpExit' = "returned"
            /\ UNCHANGED <<out, exc, sites>>
    /\ UNCHANGED <<unitVars, cmd, wrapped, runner, runner_args, adc_local, cs, rp, pinVars,
                   envVars, stop_time, cleaned, reason, iterWater, iterSoil, iterNow,
                   start, nHigh, nLow, sessions>>

\* ----------------------------------------------- check_sensors_and_run_pump
\* cs_critical without the exit(): the report is made and the flow goes on.
cs_critical_without_exit ==
    /\ pc = "cs_critical"
    /\ \E r \in read_adc(cs.adc, WATER_ADC_CHANNEL) :
          IF r.exc # "none"
          THEN /\ exc' = r.exc
               /\ pc' = AfterRunner
               /\ UNCHANGED <<out, sites>>
          ELSE /\ sites' = sites \cup {153}
               /\ out' = IF is_water_level_critical(r.v)
                         THEN Append(out, WATER_LEVEL_CRITICAL_MESSAGE) ELSE out
               /\ pc' = "cs_low"
               /\ exc' = exc
    /\ UNCHANGED <<unitVars, cmd, wrapped, runner, runner_args, adc_local, cs, rp, pinVars,
                   envVars, stop_time, cleaned, reason, iterWater, iterSoil, iterNow,
                   start, nHigh, nLow, sessions, rpExit>>

\* Lines 153-155: if is_water_level_critical(adc): echo; exit().
cs_critical ==
    /\ pc = "cs_critical"
    /\ \E r \in read_adc(cs.adc, WATER_ADC_CHANNEL) :
          IF r.exc # "none"
          THEN /\ exc' = r.exc
               /\ pc' = AfterRunner
               /\ UNCHANGED <<out, sites>>
          ELSE /\ sites' = sites \cup {153}
               /\ IF is_water_level_critical(r.v)
                  THEN /\ out' = Append(out, WATER_LEVEL_CRITICAL_MESSAGE)
                       /\ exc' = "SystemExit"
                       /\ pc' = AfterRunner
                  ELSE /\ pc' = "cs_low"
                       /\ UNCHANGED <<out, exc>>
    /\ UNCHANGED <<unitVars, cmd, wrapped, runner, runner_args, adc_local, cs, rp, pinVars,
                   envVars, stop_time, cleaned, reason, iterWater, iterSoil, iterNow,
                   start, nHigh, nLow, sessions, rpExit>>

\* Lines 157-158: if is_water_level_low(adc): echo the advisory.
cs_low ==
    /\ pc = "cs_low"
    /\ \E r \in read_adc(cs.adc, WATER_ADC_CHANNEL) :
          IF r.exc # "none"
          THEN /\ exc' = r.exc
               /\ pc' = AfterRunner
               /\ UNCHANGED <<out, sites>>
          ELSE /\ sites' = sites \cup {157}
               /\ out' = IF is_water_level_low(r.v)
                         THEN Append(out, WATER_LEVEL_WARNING_MESSAGE) ELSE out
               /\ pc' = "cs_soil"
               /\ exc' = exc
    /\ UNCHANGED <<unitVars, cmd, wrapped, runner, runner_args, adc_local, cs, rp, pinVars,
                   envVars, stop_time, cleaned, reason, iterWater, iterSoil, iterNow,
                   start, nHigh, nLow, sessions, rpExit>>

\* Lines 160-164: if is_soil_dry(adc): run_pump(adc, timeout), else report wet.
cs_soil ==
    /\ pc = "cs_soil"
    /\ \E r \in read_adc(cs.adc, SOIL_ADC_CHANNEL) :
          IF r.exc # "none"
          THEN /\ exc' = r.exc
               /\ pc' = AfterRunner
               /\ UNCHANGED <<out, sites, rp, sessions, rpExit>>
          ELSE /\ sites' = sites \cup {160}
               /\ exc' = exc
               /\ IF is_soil_dry(r.v)
                  THEN /\ out' = Append(out, SOIL_IS_DRY_MESSAGE)
                       /\ rp' = BindRunPump(<<cs.adc, cs.timeout>>)
                       /\ sessions' = sessions + 1
                       /\ rpExit' = "active"
                       /\ pc' = "rp_banner"
                  ELSE /\ out' = Append(out, SOIL_IS_WET_MESSAGE)
                       /\ pc' = AfterRunner
                       /\ UNCHANGED <<rp, sessions, rpExit>>
    /\ UNCHANGED <<unitVars, cmd, wrapped, runner, runner_args, adc_local, cs, pinVars,
                   envVars, stop_time, cleaned, reason, iterWater, iterSoil, iterNow,
                   start, nHigh, nLow>>

Next ==
    \/ Tick
    \/ SensorDrift
    \/ pump
    \/ run
    \/ call_run_and_cleanup
    \/ call_run_pump
    \/ call_check_sensors_and_run_pump
    \/ rac_adc
    \/ rac_refvoltage
    \/ rac_call
    \/ rac_finally
    \/ rp_banner
    \/ rp_pin
    \/ rp_high
    \/ rp_deadline
    \/ rp_water
    \/ rp_soil
    \/ rp_time
    \/ rp_stop
    \/ rp_advisory
    \/ cs_critical
    \/ cs_low
    \/ cs_soil

Spec == Init /\ [][Next]_vars

\* One statement of run_pump is executed (lines 122-149).
run_pump_step ==
    \/ rp_banner
    \/ rp_pin
    \/ rp_high
    \/ rp_deadline
    \/ rp_water
    \/ rp_soil
    \/ rp_time
    \/ rp_stop
    \/ rp_advisory

\* The program under a running interpreter and an advancing clock: a statement
\* of run_pump that can be executed is executed, and time.time() does not stand
\* still while the loop polls it.
FairSpec == Init /\ [][Next]_vars /\ WF_vars(run_pump_step) /\ WF_vars(Tick)

\* run_pump called directly (lines 121-149), with the clock and the sensors
\* changing around it.
SessionNext ==
    \/ Tick
    \/ SensorDrift
    \/ call_run_pump
    \/ rp_banner
    \/ rp_pin
    \/ rp_high
    \/ rp_deadline
    \/ rp_water
    \/ rp_soil
    \/ rp_time
    \/ rp_stop
    \/ rp_advisory

FairSessionSpec == Init /\ [][SessionNext]_vars /\ WF_vars(run_pump_step) /\ WF_vars(Tick)

\* ------------------------------------------- components exercised on their own
\* The pin classes and the three threshold predicates, driven directly: one
\* pin is constructed, as an OutputPin or as an InputPin. An OutputPin is given
\* any sequence of set_high / set_low commands and is_high / is_low queries; an
\* InputPin is read through is_high, is_low and value while the level on the
\* pin changes. The predicates are given any voltage.
MaxCommands == 5

ProbeVoltages == WaterVoltages \cup SoilVoltages

\* InputPin(number): lines 55-56. GPIO.setup(number, GPIO.IN) leaves the level
\* on the pin to whatever drives it.
InputPin == [mode |-> "IN", level |-> gpio.level]

\* GPIO.input(number) answers GPIO.LOW or GPIO.HIGH: the level on the pin, and
\* either of the two on a pin that nothing drives.
GPIO_input == IF gpio.level \in {"LOW", "HIGH"} THEN {gpio.level} ELSE {"LOW", "HIGH"}

\* InputPin._current_state (lines 58-60): GPIO.input(self.number). The set of
\* states one read can return.
input_current_state == {[value |-> l, input_read |-> TRUE] : l \in GPIO_input}

\* InputPin.value (lines 62-64).
value(state) == state.value

\* OutputPin._current_state reading the hardware as InputPin does.
current_state_from_hardware == [value |-> gpio.level, input_read |-> TRUE]

\* OutputPin._current_state (lines 72-74): the cached output, no hardware read.
current_state == [value |-> relay_pin, input_read |-> FALSE]

ComponentInit ==
    /\ pc = "unit"
    /\ cmd = "none"
    /\ wrapped = FALSE
    /\ runner = "none"
    /\ runner_args = <<>>
    /\ adc_local = "unset"
    /\ cs = NoCsParams
    /\ rp = NoParams
    /\ relay_pin = "none"
    /\ gpio = [mode |-> "unset", level |-> "none"]
    /\ pin_log = <<>>
    /\ stop_time = {}
    /\ now = 0
    /\ waterV = WATER_LEVEL_WARNING_THRESHOLD
    /\ soilV = SOIL_DRY_THRESHOLD
    /\ out = <<>>
    /\ exc = "none"
    /\ cleaned = 0
    /\ reason = "none"
    /\ iterWater = {}
    /\ iterSoil = {}
    /\ iterNow = {}
    /\ start = {}
    /\ sites = {}
    /\ nHigh = 0
    /\ nLow = 0
    /\ sessions = 0
    /\ rpExit = "none"
    /\ input_pin = "none"
    /\ hw_input_read = FALSE
    /\ observed = NoObservation
    /\ probe = {}
    /\ verdict = NoVerdict

\* OutputPin(number): lines 68-70.
unit_new_pin ==
    /\ pc = "unit"
    /\ relay_pin = "none"
    /\ input_pin = "none"
    /\ relay_pin' = OutputPin
    /\ gpio' = [mode |-> "OUT", level |-> "none"]
    /\ UNCHANGED <<progVars, pin_log, envVars, stop_time, out, exc, cleaned, histVars,
                   unitVars>>

\* pin.set_high(): lines 80-81.
unit_set_high ==
    /\ pc = "unit"
    /\ relay_pin # "none"
    /\ Len(pin_log) < MaxCommands
    /\ set_output(set_high)
    /\ pin_log' = Append(pin_log, "set_high")
    /\ observed' = NoObservation
    /\ UNCHANGED <<progVars, envVars, stop_time, out, exc, cleaned, histVars,
                   input_pin, hw_input_read, probe, verdict>>

\* pin.set_low(): lines 83-84.
unit_set_low ==
    /\ pc = "unit"
    /\ relay_pin # "none"
    /\ Len(pin_log) < MaxCommands
    /\ set_output(set_low)
    /\ pin_log' = Append(pin_log, "set_low")
    /\ observed' = NoObservation
    /\ UNCHANGED <<progVars, envVars, stop_time, out, exc, cleaned, histVars,
                   input_pin, hw_input_read, probe, verdict>>

\* pin.is_high and pin.is_low: lines 45-51, each through _current_state.
unit_query ==
    /\ pc = "unit"
    /\ relay_pin # "none"
    /\ observed' = [is_high |-> is_high(current_state),
                    is_low |-> is_low(current_state),
                    value |-> "none", asked |-> TRUE]
    /\ hw_input_read' = (hw_input_read \/ current_state.input_read)
    /\ UNCHANGED <<progVars, pinVars, envVars, stop_time, out, exc, cleaned, histVars,
                   input_pin, probe, verdict>>

\* InputPin(number): lines 55-56, through Pin.__init__ (lines 36-39).
unit_new_input_pin ==
    /\ pc = "unit"
    /\ relay_pin = "none"
    /\ input_pin = "none"
    /\ input_pin' = "InputPin"
    /\ gpio' = InputPin
    /\ UNCHANGED <<progVars, relay_pin, pin_log, envVars, stop_time, out, exc, cleaned,
                   histVars, hw_input_read, observed, probe, verdict>>

\* Whatever is wired to an input pin drives its level.
unit_drive_input ==
    /\ pc = "unit"
    /\ gpio.mode = "IN"
    /\ \E l \in {"LOW", "HIGH"} \ {gpio.level} : gpio' = [gpio EXCEPT !.level = l]
    /\ UNCHANGED <<progVars, relay_pin, pin_log, envVars, stop_time, out, exc, cleaned,
                   histVars, unitVars>>

\* One of the properties is_high, is_low, value of the InputPin is read (lines
\* 45-51 and 62-64): each reads the pin through GPIO.input.
unit_input_query ==
    /\ pc = "unit"
    /\ input_pin = "InputPin"
    /\ \E state \in input_current_state :
          /\ \/ observed' = [observed EXCEPT !.is_high = is_high(state), !.asked = TRUE]
             \/ observed' = [observed EXCEPT !.is_low = is_low(state), !.asked = TRUE]
             \/ observed' = [observed EXCEPT !.value = value(state), !.asked = TRUE]
          /\ hw_input_read' = (hw_input_read \/ state.input_read)
    /\ UNCHANGED <<progVars, pinVars, envVars, stop_time, out, exc, cleaned, histVars,
                   input_pin, probe, verdict>>

\* The three predicates of lines 109-118 on one and the same reading v.
unit_probe ==
    /\ pc = "unit"
    /\ \E v \in ProbeVoltages :
          /\ probe' = {v}
          /\ verdict' = [dry |-> is_soil_dry(v), low |-> is_water_level_low(v),
                         critical |-> is_water_level_critical(v)]
    /\ UNCHANGED <<progVars, pinVars, envVars, stop_time, out, exc, cleaned, histVars,
                   input_pin, hw_input_read, observed>>

ComponentNext ==
    \/ unit_new_pin
    \/ unit_set_high
    \/ unit_set_low
    \/ unit_query
    \/ unit_new_input_pin
    \/ unit_drive_input
    \/ unit_input_query
    \/ unit_probe

ComponentSpec == ComponentInit /\ [][ComponentNext]_vars

\* ------------------------------------------------------------------- claims
CheckWater == Truthy(rp.check_water_level)
CheckMoisture == Truthy(rp.check_moisture)
InSession == rpExit # "none"
ConditionalFlow == cs.adc # NoValue
LastMessage == IF out = <<>> THEN "" ELSE out[Len(out)]
Exited == {"rac_finally", "done"}

\* C1: when a sensor read raises inside run_pump after the relay was commanded
\* high, the relay has been commanded low by the time the error leaves run_pump.
C1_RelayLowWhenRunPumpRaises ==
    (rpExit = "raised" /\ exc = "SensorUnavailable") => relay_pin = "LOW"

\* C2: once the polling loop has been left through a stop condition and line
\* 146 has been passed, the relay's last commanded state is low (and stays low
\* until run_pump returns); run_pump returns only through a stop condition.
C2_EveryStopPathSetsLow ==
    /\ (reason # "none" /\ pc # "rp_stop") =>
          /\ relay_pin = "LOW"
          /\ nLow = 1
          /\ gpio.mode = "OUT" => gpio.level = "LOW"
    /\ rpExit = "returned" => reason # "none"

C2_Witness ==
    /\ rpExit = "returned"
    /\ reason = SOIL_IS_WET_MESSAGE
    /\ relay_pin = "LOW"
    /\ nHigh = 1

\* C3: an iteration whose water reading is below the critical threshold ends
\* the session with the critical-water report; neither the soil-wet nor the
\* time-up report is made, whatever the soil and the clock are at that moment.
C3_CriticalWaterPreempts ==
    \A v \in iterWater :
        v < WATER_LEVEL_CRITICAL_THRESHOLD =>
            /\ reason = WATER_LEVEL_CRITICAL_MESSAGE
            /\ pc \notin {"rp_soil", "rp_time", "rp_water"}
            /\ \A i \in DOMAIN out : out[i] \notin {SOIL_IS_WET_MESSAGE, TIME_IS_UP_MESSAGE}

C3_Witness ==
    /\ pc = "rp_stop"
    /\ reason = WATER_LEVEL_CRITICAL_MESSAGE
    /\ CheckMoisture
    /\ soilV <= SOIL_DRY_THRESHOLD
    /\ NumberOf(rp.timeout) > 0
    /\ \E d \in stop_time : now >= d

\* C4: whenever run_and_cleanup is left, normally or by any exception,
\* cleanup() has run exactly once, after the command, and the pin is released.
C4_CleanupOnEveryExit ==
    /\ (wrapped /\ pc = "done") => (cleaned = 1 /\ gpio.mode # "OUT")
    /\ cleaned > 0 => pc = "done"

C4_Witness ==
    /\ cmd = "pump"
    /\ pc = "done"
    /\ exc = "AttributeError"
    /\ nHigh = 1
    /\ cleaned = 1
    /\ gpio.mode = "IN"

\* C5: in check_sensors_and_run_pump an up-front water reading below the
\* critical threshold is reported and the process exits: no other sensor check
\* is made, no session is created and the relay pin is never driven.
C5_CriticalPreCheckAborts ==
    /\ [][(pc = "cs_critical" /\ 153 \in sites' /\ waterV < WATER_LEVEL_CRITICAL_THRESHOLD) =>
            /\ exc' = "SystemExit"
            /\ out' = <<WATER_LEVEL_CRITICAL_MESSAGE>>
            /\ pc' \in Exited]_vars
    /\ [](exc = "SystemExit" =>
            /\ pc \in Exited
            /\ sites = {153}
            /\ sessions = 0
            /\ nHigh = 0
            /\ relay_pin = "none"
            /\ gpio.level = "none")

C5_Witness ==
    /\ ConditionalFlow
    /\ pc = "done"
    /\ exc = "SystemExit"
    /\ waterV < WATER_LEVEL_CRITICAL_THRESHOLD
    /\ out = <<WATER_LEVEL_CRITICAL_MESSAGE>>
    /\ nHigh = 0

\* C6: in check_sensors_and_run_pump, with the water not critical, an up-front
\* soil reading at or below the soil-dry threshold is reported as wet and no
\* session is started: the relay is never commanded high.
C6_WetSoilStartsNoSession ==
    /\ [][(pc = "cs_soil" /\ 160 \in sites' /\ soilV <= SOIL_DRY_THRESHOLD) =>
            /\ out' = Append(out, SOIL_IS_WET_MESSAGE)
            /\ pc' \in Exited
            /\ sessions' = 0
            /\ exc' = "none"]_vars
    /\ []((ConditionalFlow /\ 160 \in sites /\ sessions = 0) =>
            /\ pc \in Exited
            /\ nHigh = 0
            /\ relay_pin = "none"
            /\ gpio.level = "none")

C6_Witness ==
    /\ ConditionalFlow
    /\ pc = "done"
    /\ 160 \in sites
    /\ soilV = SOIL_DRY_THRESHOLD
    /\ LastMessage = SOIL_IS_WET_MESSAGE
    /\ sessions = 0
    /\ nHigh = 0

\* C7: in check_sensors_and_run_pump, with the water not critical, a dry
\* up-front soil reading starts exactly one session with both checks enabled
\* and the caller's timeout, whether or not the low-water advisory was given.
C7_DrySoilStartsOneFullSession ==
    /\ [][(pc = "cs_soil" /\ 160 \in sites' /\ soilV > SOIL_DRY_THRESHOLD) =>
            /\ pc' = "rp_banner"
            /\ sessions' = 1
            /\ rp' = [adc |-> cs.adc, timeout |-> cs.timeout,
                      check_water_level |-> Bool(TRUE), check_moisture |-> Bool(TRUE)]]_vars
    /\ [](ConditionalFlow =>
            /\ sessions <= 1
            /\ sessions = 1 => (rp.timeout = cs.timeout /\ CheckWater /\ CheckMoisture))

C7_Witness ==
    /\ ConditionalFlow
    /\ sessions = 1
    /\ nHigh = 1
    /\ out = <<WATER_LEVEL_WARNING_MESSAGE, SOIL_IS_DRY_MESSAGE, RUNNING_UNTIL_WET_MESSAGE>>
    /\ rp.timeout = cs.timeout
    /\ CheckWater
    /\ CheckMoisture

\* C8 as stated: a session with timeout <= 0 that returns stopped for the reason
\* time-up, with the relay commanded high once and low once.
C8_NonPositiveTimeoutAlwaysTimedOut ==
    (rpExit = "returned" /\ NumberOf(rp.timeout) <= 0) =>
        /\ reason = TIME_IS_UP_MESSAGE
        /\ nHigh = 1
        /\ nLow = 1

\* C8 as amended: a session with timeout <= 0 never begins a second iteration,
\* because the deadline test succeeds whenever it is reached; the stop reason is
\* critical water when that check is enabled and its reading is critical, else
\* wet soil when that check is enabled and its reading is not dry, and time-up
\* only otherwise; the relay is commanded high once, and low once at the stop.
C8_NonPositiveTimeoutStopsInFirstIteration ==
    /\ [][(pc = "rp_time" /\ pc' # "rp_time" /\ NumberOf(rp.timeout) <= 0) =>
            /\ pc' = "rp_stop"
            /\ reason' = TIME_IS_UP_MESSAGE]_vars
    /\ []((InSession /\ NumberOf(rp.timeout) <= 0 /\ reason # "none") =>
            /\ reason =
                 IF CheckWater /\ \E v \in iterWater : v < WATER_LEVEL_CRITICAL_THRESHOLD
                 THEN WATER_LEVEL_CRITICAL_MESSAGE
                 ELSE IF CheckMoisture /\ \E v \in iterSoil : v <= SOIL_DRY_THRESHOLD
                      THEN SOIL_IS_WET_MESSAGE
                      ELSE TIME_IS_UP_MESSAGE
            /\ nHigh = 1
            /\ nLow = IF pc = "rp_stop" THEN 0 ELSE 1)

C8_Witness ==
    /\ rpExit = "returned"
    /\ NumberOf(rp.timeout) <= 0
    /\ CheckWater
    /\ CheckMoisture
    /\ reason = TIME_IS_UP_MESSAGE
    /\ nHigh = 1
    /\ nLow = 1

\* C9: a session with both checks disabled reads no analog channel, cannot
\* raise, stops only for the reason time-up, and the clock reading of the
\* iteration that stops it is at least start + timeout.
C9_TimerOnlySession ==
    (InSession /\ ~CheckWater /\ ~CheckMoisture) =>
        /\ reason \in {"none", TIME_IS_UP_MESSAGE}
        /\ sites = {}
        /\ iterWater = {}
        /\ iterSoil = {}
        /\ rpExit # "raised"
        /\ reason = TIME_IS_UP_MESSAGE =>
              /\ iterNow # {}
              /\ \A t \in iterNow, s \in start : t >= s + NumberOf(rp.timeout)

C9_Witness ==
    /\ rpExit = "returned"
    /\ ~CheckWater
    /\ ~CheckMoisture
    /\ reason = TIME_IS_UP_MESSAGE
    /\ NumberOf(rp.timeout) = MaxTimeout
    /\ \E t \in iterNow, s \in start : t > s + NumberOf(rp.timeout)

\* C10: the session of the pump command reads through the ADC and has the
\* command's timeout and flags as its timeout, checkWaterLevel and checkMoisture.
C10_PumpSessionUsesItsArguments ==
    (cmd = "pump" /\ InSession) =>
        rp = [adc |-> AdcObject, timeout |-> runner_args[1],
              check_water_level |-> runner_args[2], check_moisture |-> runner_args[3]]

\* C11 as stated: the run command checks the sensors first, through the ADC set
\* up for the process and with the command's timeout (unless the ADC could not
\* be set up: line 169 or line 170 raised).
C11_RunChecksSensorsFirst ==
    (cmd = "run" /\ pc = "done" /\ adc_local = "ADC" /\ exc # "OSError") =>
        /\ cs = [adc |-> AdcObject, timeout |-> runner_args[1]]
        /\ exc # "TypeError"
        /\ 153 \in sites \/ exc = "SensorUnavailable"

LastCommand == IF pin_log = <<>> THEN "none" ELSE pin_log[Len(pin_log)]

\* C12: on an OutputPin, is_high holds iff the last command was set_high and
\* is_low iff it was set_low or there was none; exactly one of the two holds;
\* once a command was given the cached state is the level last written to the
\* pin; no query reads the hardware input.
C12_OutputPinReportsLastCommand ==
    /\ (relay_pin # "none" /\ observed.asked) =>
          /\ observed.is_high = (LastCommand = "set_high")
          /\ observed.is_low = (LastCommand \in {"set_low", "none"})
          /\ observed.is_high # observed.is_low
    /\ relay_pin # "none" => hw_input_read = FALSE
    /\ pin_log # <<>> =>
          /\ relay_pin = gpio.level
          /\ gpio.level = (IF LastCommand = "set_high" THEN "HIGH" ELSE "LOW")
    /\ (relay_pin # "none" /\ pin_log = <<>>) => relay_pin = "LOW"

C12_Witness ==
    /\ relay_pin # "none"
    /\ observed.asked
    /\ observed.is_high
    /\ ~observed.is_low
    /\ Len(pin_log) >= 3
    /\ pin_log[Len(pin_log) - 1] = "set_low"

\* C13: on every voltage of the grid, is_soil_dry answers v > soil-dry
\* threshold, is_water_level_low answers v < water-low threshold and
\* is_water_level_critical answers v < water-critical threshold.
C13_PredicatesAreStrictComparisons ==
    \A v \in probe :
        /\ verdict.dry = (v > SOIL_DRY_THRESHOLD)
        /\ verdict.low = (v < WATER_LEVEL_WARNING_THRESHOLD)
        /\ verdict.critical = (v < WATER_LEVEL_CRITICAL_THRESHOLD)

C13_Witness ==
    /\ probe = {WATER_LEVEL_WARNING_THRESHOLD}
    /\ ~verdict.low
    /\ ~verdict.critical
    /\ verdict.dry

\* C14 as stated: a reading from the critical threshold up to (not including)
\* the low threshold is both low and critical.
C14_BetweenThresholdsLowAndCritical ==
    \A v \in probe :
        (WATER_LEVEL_CRITICAL_THRESHOLD <= v /\ v < WATER_LEVEL_WARNING_THRESHOLD) =>
            (verdict.low /\ verdict.critical)

\* C14 as amended: such a reading is low and not critical; low and critical
\* hold together exactly on the readings below the critical threshold.
C14_BetweenThresholdsLowNotCritical ==
    \A v \in probe :
        /\ (WATER_LEVEL_CRITICAL_THRESHOLD <= v /\ v < WATER_LEVEL_WARNING_THRESHOLD) =>
              (verdict.low /\ ~verdict.critical)
        /\ (verdict.low /\ verdict.critical) <=> v < WATER_LEVEL_CRITICAL_THRESHOLD

C14_Witness ==
    /\ probe = {WATER_LEVEL_CRITICAL_THRESHOLD}
    /\ verdict.low
    /\ ~verdict.critical

\* C15: the critical threshold lies strictly below the low threshold, and on
\* every reading critical implies low.
C15_CriticalImpliesLow ==
    /\ WATER_LEVEL_CRITICAL_THRESHOLD < WATER_LEVEL_WARNING_THRESHOLD
    /\ \A v \in probe : verdict.critical => verdict.low

C15_Witness ==
    /\ probe = {WATER_LEVEL_WARNING_THRESHOLD - 1}
    /\ verdict.low
    /\ ~verdict.critical

StopMessages == {WATER_LEVEL_CRITICAL_MESSAGE, SOIL_IS_WET_MESSAGE, TIME_IS_UP_MESSAGE}
StopReports == {i \in DOMAIN out : out[i] \in StopMessages}
InLoop == {"rp_banner", "rp_pin", "rp_high", "rp_deadline", "rp_water", "rp_soil", "rp_time"}
SessionSites == {135, 138, 148}

\* C16: a session makes at most one stop report; none while the loop continues;
\* exactly one, the stop reason, once the loop has ended, made while the relay
\* is still high and followed at once by the stop of the pump.
C16_OneStopReportAtLoopEnd ==
    InSession =>
        /\ Cardinality(StopReports) <= 1
        /\ pc \in InLoop => (StopReports = {} /\ reason = "none")
        /\ reason # "none" =>
              /\ reason \in StopMessages
              /\ \A i \in StopReports : out[i] = reason
              /\ Cardinality(StopReports) = 1
        /\ pc = "rp_stop" =>
              /\ reason # "none"
              /\ LastMessage = reason
              /\ relay_pin = "HIGH"
              /\ nLow = 0
        /\ nLow > 0 =>
              /\ reason # "none"
              /\ \A i \in StopReports :
                    i < Len(out) /\ out[i + 1] = STOPPING_PUMP_MESSAGE
        /\ rpExit = "returned" => Cardinality(StopReports) = 1

C16_Witness ==
    /\ rpExit = "returned"
    /\ NumberOf(rp.timeout) > 0
    /\ CheckWater
    /\ CheckMoisture
    /\ reason = TIME_IS_UP_MESSAGE
    /\ StopReports = {2}
    /\ out[3] = STOPPING_PUMP_MESSAGE

\* C17: a command runs at most one session; the relay is commanded high once,
\* before the deadline is computed and before any sensor read of the session;
\* it is high throughout the loop; it is commanded low once after the loop and
\* never high again: the pin only goes constructed -> high -> low.
C17_IdleRunningStopped ==
    /\ [](/\ sessions <= 1
          /\ pin_log \in {<<>>, <<"set_high">>, <<"set_high", "set_low">>}
          /\ nHigh <= 1
          /\ nLow <= 1)
    /\ [](pc \in {"rp_deadline", "rp_water", "rp_soil", "rp_time", "rp_stop"} =>
            (relay_pin = "HIGH" /\ gpio.level = "HIGH" /\ pin_log = <<"set_high">>))
    /\ []((stop_time # {} \/ sites \cap SessionSites # {}) => nHigh = 1)
    /\ []((reason # "none" /\ pc # "rp_stop") =>
            (relay_pin = "LOW" /\ pin_log = <<"set_high", "set_low">>))
    /\ [][relay_pin' # relay_pin =>
            <<relay_pin, relay_pin'>> \in
                {<<"none", "LOW">>, <<"LOW", "HIGH">>, <<"HIGH", "LOW">>}]_vars

C17_Witness ==
    /\ ConditionalFlow
    /\ rpExit = "returned"
    /\ sessions = 1
    /\ pin_log = <<"set_high", "set_low">>
    /\ relay_pin = "LOW"

\* C19: with check_moisture off the soil channel is never read and the reason
\* is never wet soil; with check_water_level off the water channel is never
\* read, in the loop or after the stop, the reason is never critical water and
\* no low-water advisory is made; an enabled check reads the channel's voltage
\* of that moment each time it is evaluated.
C19_OnlyEnabledChecksRead ==
    /\ []((InSession /\ ~CheckMoisture) =>
            /\ 138 \notin sites
            /\ iterSoil = {}
            /\ reason # SOIL_IS_WET_MESSAGE)
    /\ []((InSession /\ ~CheckWater) =>
            /\ 135 \notin sites
            /\ 148 \notin sites
            /\ iterWater = {}
            /\ reason # WATER_LEVEL_CRITICAL_MESSAGE
            /\ \A i \in DOMAIN out : out[i] # WATER_LEVEL_WARNING_MESSAGE)
    /\ [][(pc = "rp_water" /\ pc' # "rp_water" /\ CheckWater /\ exc' = "none") =>
            (iterWater' = {waterV} /\ 135 \in sites')]_vars
    /\ [][(pc = "rp_soil" /\ pc' # "rp_soil" /\ CheckMoisture /\ exc' = "none") =>
            (iterSoil' = {soilV} /\ 138 \in sites')]_vars

C19_Witness ==
    /\ rpExit = "returned"
    /\ CheckWater
    /\ ~CheckMoisture
    /\ soilV <= SOIL_DRY_THRESHOLD
    /\ reason = TIME_IS_UP_MESSAGE
    /\ sites = {135, 148}

\* C20: when run_pump passes lines 148-149 the relay has been commanded low;
\* the advisory is made iff check_water_level is on and the water voltage read
\* at that moment is below the low threshold; the step changes neither the stop
\* reason nor the relay.
C20_AdvisoryAfterStop ==
    [][(pc = "rp_advisory" /\ pc' # "rp_advisory") =>
          /\ relay_pin = "LOW"
          /\ nLow = 1
          /\ LastMessage = STOPPING_PUMP_MESSAGE
          /\ reason' = reason
          /\ relay_pin' = relay_pin
          /\ gpio' = gpio
          /\ pin_log' = pin_log
          /\ out' = IF CheckWater /\ exc' = "none" /\ waterV < WATER_LEVEL_WARNING_THRESHOLD
                    THEN Append(out, WATER_LEVEL_WARNING_MESSAGE)
                    ELSE out]_vars

C20_Witness ==
    /\ rpExit = "returned"
    /\ LastMessage = WATER_LEVEL_WARNING_MESSAGE
    /\ reason = TIME_IS_UP_MESSAGE
    /\ relay_pin = "LOW"
    /\ waterV < WATER_LEVEL_WARNING_THRESHOLD
    /\ \E v \in iterWater : v >= WATER_LEVEL_WARNING_THRESHOLD

\* C18: under FairSessionSpec (and FairSpec) every session that has started ends: either a sensor
\* read raised, or run_pump returned with the relay commanded low. The clock
\* test of line 141 on a reading at or past the deadline always leaves the loop,
\* whatever the sensors read in that iteration, and the stop that follows
\* commands the relay low.
C18_SessionTerminatesRelayLow ==
    /\ (rpExit = "active") ~>
          (rpExit = "raised" \/ (rpExit = "returned" /\ relay_pin = "LOW" /\ nLow = 1))
    /\ [][(pc = "rp_time" /\ pc' # "rp_time" /\ time_is_up(now)) =>
            (pc' = "rp_stop" /\ reason' = TIME_IS_UP_MESSAGE /\ iterNow' = {now})]_vars
    /\ [][(pc = "rp_stop" /\ pc' # "rp_stop") =>
            (relay_pin' = "LOW" /\ gpio'.level = "LOW")]_vars
    /\ []((pc \in {"rp_water", "rp_soil", "rp_time"} /\ iterNow = {}) =>
            \A t \in start : \A d \in stop_time : d = t + NumberOf(rp.timeout))

C18_Witness ==
    /\ rpExit = "returned"
    /\ relay_pin = "LOW"
    /\ CheckWater
    /\ CheckMoisture
    /\ NumberOf(rp.timeout) >= 2
    /\ reason = TIME_IS_UP_MESSAGE
    /\ \E t \in iterNow : \E b \in start : t >= b + NumberOf(rp.timeout)
    /\ 135 \in sites
    /\ 138 \in sites
====
